---- MODULE Spec2Model ----
(***************************************************************************)
(* Model of the distributive factor-out rewrite rule                       *)
(* (mathzero/core/rules/distributive_factor_out.py) acting on a mutable    *)
(* expression tree with parent back-references.                            *)
(*                                                                         *)
(* The tree is an arena: a sequence of node records addressed by index,    *)
(* 0 standing for "no node" (Python None).  Child and parent links are     *)
(* indices, so that aliasing and stale links of the in-place splice are    *)
(* visible in the state.                                                   *)
(*                                                                         *)
(* The glue around the rule is modelled in specifications of its own: the  *)
(* Gym wrapper (mathy/gym/mathy_gym_env.py), the masking of the policy     *)
(* (mathy/a3c/actor_critic_model.py) and the worker threads                *)
(* (mathy/a3c/a3c_worker.py).                                              *)
(***************************************************************************)
EXTENDS Integers, Sequences, FiniteSets, TLC

VARIABLES arena, root, change, error, last, steps,
          query,    \* the last canApplyTo call and the value it returned
          gym,      \* the MathyGymEnv instance
          net,      \* the policy tensors of one ActorCriticModel call
          pool      \* the A3CWorker threads and their class-level variables

vars == <<arena, root, change, error, last, steps, query, gym, net, pool>>

\* the value of a component that a specification does not exercise
Unused == <<>>

\* no canApplyTo call made yet
NoQuery == [node |-> 0, result |-> FALSE]

(***************************************************************************)
(* Bounds of the model.                                                    *)
(***************************************************************************)
\* coefficients of the generated terms range over 1..MaxCoef
MaxCoef == 4
\* number of applyTo calls in one behaviour
MaxSteps == 3

\* variable names of the generated problems, and the values substituted
Vars == {"x", "y", "z"}
Vals == {-1, 2, 3}
Assignments == [Vars -> Vals]

(***************************************************************************)
(* Expression nodes.                                                       *)
(***************************************************************************)
Kinds == {"Const", "Var", "Add", "Sub", "Mul", "Pow"}

Node(kind, value, name, left, right, parent) ==
    [kind |-> kind, value |-> value, name |-> name,
     left |-> left, right |-> right, parent |-> parent]

ConstantExpression(value) == Node("Const", value, "", 0, 0, 0)

VariableExpression(name) == Node("Var", 0, name, 0, 0, 0)

isAddSubtract(A, n) == n # 0 /\ A[n].kind \in {"Add", "Sub"}

\* BinaryExpression.setLeft: the slot is replaced, the previous child's
\* back-reference is cleared, the new child's back-reference is set.
setLeft(A, n, child) ==
    LET old == A[n].left
        A1 == IF old # 0 THEN [A EXCEPT ![old].parent = 0] ELSE A
        A2 == [A1 EXCEPT ![n].left = child]
    IN IF child # 0 THEN [A2 EXCEPT ![child].parent = n] ELSE A2

setRight(A, n, child) ==
    LET old == A[n].right
        A1 == IF old # 0 THEN [A EXCEPT ![old].parent = 0] ELSE A
        A2 == [A1 EXCEPT ![n].right = child]
    IN IF child # 0 THEN [A2 EXCEPT ![child].parent = n] ELSE A2

\* BinaryExpression.getSide / setSide
getSide(A, n, child) == IF A[n].left = child THEN "left" ELSE "right"

setSide(A, n, child, side) ==
    IF side = "left" THEN setLeft(A, n, child) ELSE setRight(A, n, child)

\* A new binary node of the given kind over two existing subtrees: the
\* constructor stores both children through setLeft / setRight.
BinaryExpression(A, kind, l, r) ==
    LET id == Len(A) + 1
        A0 == Append(A, Node(kind, 0, "", 0, 0, 0))
    IN setRight(setLeft(A0, id, l), id, r)

RECURSIVE getRoot(_, _)
getRoot(A, n) == IF A[n].parent = 0 THEN n ELSE getRoot(A, A[n].parent)

\* the nodes reachable from n through child slots
RECURSIVE Descendants(_, _)
Descendants(A, n) ==
    IF n = 0 THEN {}
    ELSE {n} \cup Descendants(A, A[n].left) \cup Descendants(A, A[n].right)

RECURSIVE Power(_, _)
Power(b, e) == IF e <= 0 THEN 1 ELSE b * Power(b, e - 1)

\* numeric evaluation of the subtree at n under an assignment of the variables
RECURSIVE evaluate(_, _, _)
evaluate(A, n, env) ==
    LET k == A[n].kind IN
    CASE k = "Const" -> A[n].value
      [] k = "Var" -> env[A[n].name]
      [] k = "Add" -> evaluate(A, A[n].left, env) + evaluate(A, A[n].right, env)
      [] k = "Sub" -> evaluate(A, A[n].left, env) - evaluate(A, A[n].right, env)
      [] k = "Mul" -> evaluate(A, A[n].left, env) * evaluate(A, A[n].right, env)
      [] k = "Pow" -> Power(evaluate(A, A[n].left, env), evaluate(A, A[n].right, env))

(***************************************************************************)
(* Term model.                                                             *)
(* A term view carries a coefficient, the list of its variables and an     *)
(* exponent; exponent 0 and variable "" stand for an absent (None) value.   *)
(***************************************************************************)
NoTerm == [ok |-> FALSE, coefficient |-> 0, variables |-> <<>>, exponent |-> 0]

Term(c, vs, e) == [ok |-> TRUE, coefficient |-> c, variables |-> vs, exponent |-> e]

SeqToSet(s) == {s[i] : i \in 1..Len(s)}

\* getTerm: a Constant, a Variable, a Power of a variable by a constant, or a
\* Multiply chain of those; anything holding an Add/Subtract is no term.
RECURSIVE getTerm(_, _)
getTerm(A, n) ==
    IF n = 0 THEN NoTerm
    ELSE
    LET k == A[n].kind IN
    CASE k = "Const" -> Term(A[n].value, <<>>, 0)
      [] k = "Var" -> Term(1, <<A[n].name>>, 0)
      [] k = "Pow" ->
            IF A[A[n].left].kind = "Var" /\ A[A[n].right].kind = "Const"
            THEN Term(1, <<A[A[n].left].name>>, A[A[n].right].value)
            ELSE NoTerm
      [] k = "Mul" ->
            LET l == getTerm(A, A[n].left)
                r == getTerm(A, A[n].right)
            IN IF ~l.ok \/ ~r.ok THEN NoTerm
               ELSE IF SeqToSet(l.variables) \cap SeqToSet(r.variables) # {} THEN NoTerm
               ELSE IF l.exponent # 0 /\ r.exponent # 0 THEN NoTerm
               ELSE Term(l.coefficient * r.coefficient,
                         l.variables \o r.variables,
                         IF l.exponent # 0 THEN l.exponent ELSE r.exponent)
      [] OTHER -> NoTerm

termsAreLike(a, b) ==
    a.ok /\ b.ok /\ a.variables = b.variables /\ a.exponent = b.exponent

RECURSIVE GCD(_, _)
GCD(a, b) == IF b = 0 THEN a ELSE GCD(b, a % b)

NoFactor ==
    [ok |-> FALSE, best |-> 0, left |-> 0, right |-> 0,
     variable |-> "", exponent |-> 0,
     leftVariable |-> "", leftExponent |-> 0,
     rightVariable |-> "", rightExponent |-> 0]

\* factorAddTerms: the greatest common coefficient of two like terms together
\* with their shared variable and exponent, and the two residual
\* coefficients.  No factor for unlike terms, nor when the only common
\* factor is 1 with no shared variable.
factorAddTerms(a, b) ==
    IF ~termsAreLike(a, b) THEN NoFactor
    ELSE
    LET g == GCD(a.coefficient, b.coefficient) IN
    IF g = 1 /\ a.variables = <<>> THEN NoFactor
    ELSE [ok |-> TRUE, best |-> g,
          left |-> a.coefficient \div g, right |-> b.coefficient \div g,
          variable |-> IF a.variables = <<>> THEN "" ELSE a.variables[1],
          exponent |-> a.exponent,
          leftVariable |-> "", leftExponent |-> 0,
          rightVariable |-> "", rightExponent |-> 0]

\* makeTerm: appends the minimal subtree of coefficient * variable ^ exponent
\* to the arena; the root of the new subtree is the last node appended.
makeTerm(A, coefficient, variable, exponent) ==
    IF variable = "" \/ coefficient = 0 THEN Append(A, ConstantExpression(coefficient))
    ELSE
    LET A1 == Append(A, VariableExpression(variable))
        v == Len(A1)
        A2 == IF exponent \in {0, 1} THEN A1
              ELSE BinaryExpression(Append(A1, ConstantExpression(exponent)),
                                    "Pow", v, v + 1)
        base == Len(A2)
    IN IF coefficient = 1 THEN A2
       ELSE BinaryExpression(Append(A2, ConstantExpression(coefficient)),
                             "Mul", base + 1, base)

\* the number of nodes makeTerm appends
TermSize(coefficient, variable, exponent) ==
    IF variable = "" \/ coefficient = 0 THEN 1
    ELSE (IF exponent \in {0, 1} THEN 1 ELSE 3) + (IF coefficient = 1 THEN 0 ELSE 2)

(***************************************************************************)
(* Change Record (ExpressionChangeRule) and the base rule.                 *)
(***************************************************************************)
NoChange == [node |-> 0, saveParent |-> 0, saveSide |-> "", focus |-> 0, result |-> 0]

\* BaseRule.applyTo: a fresh Change Record for the node
BaseRule_applyTo(node) == [NoChange EXCEPT !.node = node]

\* ExpressionChangeRule.saveParent: remember the node's parent and side
saveParent(A, ch) ==
    LET p == A[ch.node].parent IN
    IF p = 0 THEN ch
    ELSE [ch EXCEPT !.saveParent = p, !.saveSide = getSide(A, p, ch.node)]

set_focus(ch, node) == [ch EXCEPT !.focus = node]

\* ExpressionChangeRule.done: store the result in the saved parent's slot,
\* when a parent was saved, and record it
done(A, ch, node) ==
    [arena |-> IF ch.saveParent # 0
               THEN setSide(A, ch.saveParent, node, ch.saveSide)
               ELSE A,
     change |-> [ch EXCEPT !.result = node]]

(***************************************************************************)
(* DistributiveFactorOutRule                                               *)
(***************************************************************************)
POS_NATURAL == "natural"
POS_SURROUNDED == "surrounded"
POS_NONE == "none"

\* get_type that consults the parent of the node (accepts only a root)
get_type_root_only(A, node) ==
    IF A[node].parent # 0 \/ ~isAddSubtract(A, node) \/ isAddSubtract(A, A[node].right)
    THEN POS_NONE
    ELSE IF isAddSubtract(A, A[node].left) THEN POS_SURROUNDED ELSE POS_NATURAL

\* get_type that never recognises the Surrounded configuration
get_type_natural_only(A, node) ==
    IF ~isAddSubtract(A, node) \/ isAddSubtract(A, A[node].right) THEN POS_NONE
    ELSE POS_NATURAL

get_type(A, node) ==
    IF ~isAddSubtract(A, node) \/ isAddSubtract(A, A[node].right) THEN POS_NONE
    ELSE IF isAddSubtract(A, A[node].left) THEN POS_SURROUNDED
    ELSE POS_NATURAL

\* left_interest taking the left child of node.left in the Surrounded case
left_interest_buried_left(A, node) ==
    IF get_type(A, node) = POS_SURROUNDED THEN A[A[node].left].left
    ELSE A[node].left

\* the operand paired with node.right: node.left, or node.left.right when
\* node.left is itself an Add/Subtract
left_interest(A, node) ==
    IF get_type(A, node) = POS_SURROUNDED THEN A[A[node].left].right
    ELSE A[node].left

\* canApplyTo without the test of line 80 (no factor found)
canApplyTo_no_factor_check(A, node) ==
    LET tree_position == get_type(A, node) IN
    IF tree_position = POS_NONE THEN FALSE
    ELSE
    LET leftTerm == getTerm(A, left_interest(A, node))
        rightTerm == getTerm(A, A[node].right)
    IN IF ~leftTerm.ok THEN FALSE
       ELSE IF ~rightTerm.ok THEN FALSE
       ELSE IF Len(leftTerm.variables) > 1 \/ Len(rightTerm.variables) > 1 THEN FALSE
       ELSE
       LET f == factorAddTerms(leftTerm, rightTerm) IN
       IF f.best = 1 /\ f.variable = "" /\ f.exponent = 0 THEN FALSE
       ELSE TRUE

\* canApplyTo without the test of line 76 (terms of several variables)
canApplyTo_no_variables_check(A, node) ==
    LET tree_position == get_type(A, node) IN
    IF tree_position = POS_NONE THEN FALSE
    ELSE
    LET leftTerm == getTerm(A, left_interest(A, node))
        rightTerm == getTerm(A, A[node].right)
    IN IF ~leftTerm.ok THEN FALSE
       ELSE IF ~rightTerm.ok THEN FALSE
       ELSE
       LET f == factorAddTerms(leftTerm, rightTerm) IN
       IF ~f.ok THEN FALSE
       ELSE IF f.best = 1 /\ f.variable = "" /\ f.exponent = 0 THEN FALSE
       ELSE TRUE

canApplyTo(A, node) ==
    LET tree_position == get_type(A, node) IN
    IF tree_position = POS_NONE THEN FALSE
    ELSE
    LET leftTerm == getTerm(A, left_interest(A, node))
        rightTerm == getTerm(A, A[node].right)
    IN IF ~leftTerm.ok THEN FALSE
       ELSE IF ~rightTerm.ok THEN FALSE
       ELSE IF Len(leftTerm.variables) > 1 \/ Len(rightTerm.variables) > 1 THEN FALSE
       ELSE
       LET f == factorAddTerms(leftTerm, rightTerm) IN
       IF ~f.ok THEN FALSE
       ELSE IF f.best = 1 /\ f.variable = "" /\ f.exponent = 0 THEN FALSE
       ELSE TRUE

NoLast ==
    [op |-> "none", node |-> 0, kind |-> "", tree_position |-> POS_NONE,
     parent |-> 0, side |-> "", left_link |-> 0, left_interest |-> 0,
     factors |-> NoFactor, a |-> 0, b |-> 0, c |-> 0, inside |-> 0, result |-> 0]

\* a call that raised: nothing is built, nothing is spliced
Raised(A, node, exception) ==
    [arena |-> A, change |-> NoChange, error |-> exception,
     locals |-> [NoLast EXCEPT !.tree_position = get_type(A, node)]]

\* inside built as an Add whatever the kind of node
inside_kind_always_add(A, node) == "Add"

\* the kind of the new inside node: an Add when node is an Add, else a Subtract
inside_kind(A, node) == IF A[node].kind = "Add" THEN "Add" ELSE "Sub"

\* relink without line 134: left_link keeps its parent reference to node
relink_keeps_parent(A, node, left_link) ==
    IF A[node].parent # 0
    THEN setLeft(A, A[node].parent, left_link)
    ELSE A

\* lines 134-136: left_link takes node's parent reference and is stored in
\* the LEFT slot of node's parent, when node has a parent
relink(A, node, left_link) ==
    LET A2 == [A EXCEPT ![left_link].parent = A[node].parent] IN
    IF A2[node].parent # 0
    THEN setLeft(A2, A2[node].parent, left_link)
    ELSE A2

\* what a call that returned leaves behind
Returned(d, locals) ==
    [arena |-> d.arena, change |-> d.change, error |-> "none", locals |-> locals]

\* applyTo: the new arena, the Change Record returned, the exception raised
\* ("none" when the call returned) and the values of the call's locals
applyTo(A, node) ==
    LET tree_position == get_type(A, node) IN
    IF tree_position = POS_NONE THEN Raised(A, node, "ValueError")
    ELSE
    LET li == left_interest(A, node)
        factors == factorAddTerms(getTerm(A, li), getTerm(A, A[node].right))
    IN
    \* factors.best on a result that is no factor
    IF ~factors.ok THEN Raised(A, node, "AttributeError")
    ELSE
    LET a == Len(A) + TermSize(factors.best, factors.variable, factors.exponent)
        b == a + TermSize(factors.left, factors.leftVariable, factors.leftExponent)
        c == b + TermSize(factors.right, factors.rightVariable, factors.rightExponent)
        inside == c + 1
        result == c + 2
        kind == inside_kind(A, node)
        left_link == A[node].left
        locals == [op |-> "applied", node |-> node, kind |-> A[node].kind,
                   tree_position |-> tree_position,
                   parent |-> A[node].parent,
                   side |-> IF A[node].parent = 0 THEN ""
                            ELSE getSide(A, A[node].parent, node),
                   left_link |-> IF tree_position = POS_SURROUNDED
                                 THEN left_link ELSE 0,
                   left_interest |-> li,
                   factors |-> factors, a |-> a, b |-> b, c |-> c,
                   inside |-> inside, result |-> result]
    IN
    IF tree_position = POS_NATURAL THEN
        Returned(
            done(BinaryExpression(
                   BinaryExpression(
                     makeTerm(
                       makeTerm(
                         makeTerm(A, factors.best, factors.variable, factors.exponent),
                         factors.left, factors.leftVariable, factors.leftExponent),
                       factors.right, factors.rightVariable, factors.rightExponent),
                     kind, b, c),
                   "Mul", inside, a),
                 set_focus(saveParent(A, BaseRule_applyTo(node)), inside),
                 result),
            locals)
    ELSE
        Returned(
            done(relink(
                   setRight(
                     BinaryExpression(
                       BinaryExpression(
                         makeTerm(
                           makeTerm(
                             makeTerm(A, factors.best, factors.variable, factors.exponent),
                             factors.left, factors.leftVariable, factors.leftExponent),
                           factors.right, factors.rightVariable, factors.rightExponent),
                         kind, b, c),
                       "Mul", inside, a),
                     left_link, result),
                   node, left_link),
                 BaseRule_applyTo(node),
                 result),
            locals)

(***************************************************************************)
(* Problems: the expression trees a behaviour starts from, as the parser   *)
(* builds them in the arena (every builder leaves the root of what it      *)
(* built as the last node).                                                *)
(***************************************************************************)
Coefs == 1..MaxCoef

\* c, c*x, c*y, c*x^2 and the two-variable term c*x*z
Forms == {"c", "cx", "cy", "cx2", "cxz"}

ParseTerm(A, form, c) ==
    CASE form = "c" -> makeTerm(A, c, "", 0)
      [] form = "cx" -> makeTerm(A, c, "x", 0)
      [] form = "cy" -> makeTerm(A, c, "y", 0)
      [] form = "cx2" -> makeTerm(A, c, "x", 2)
      [] form = "cxz" ->
            LET A1 == makeTerm(A, c, "x", 0)
                A2 == Append(A1, VariableExpression("z"))
            IN BinaryExpression(A2, "Mul", Len(A1), Len(A2))

\* A problem is described as a term <<"T", form, c>> or as a binary
\* expression <<"B", kind, left, right>> over two descriptions.
RECURSIVE Parse(_, _)
Parse(A, d) ==
    IF d[1] = "T" THEN ParseTerm(A, d[2], d[3])
    ELSE LET A1 == Parse(A, d[3])
             A2 == Parse(A1, d[4])
         IN BinaryExpression(A2, d[2], Len(A1), Len(A2))

AddSub == {"Add", "Sub"}

\* the candidate node N: q k r (Natural) or (p kl q) k r (Surrounded)
Candidate(shape, kl, k, p, q, r) ==
    IF shape = POS_NATURAL
    THEN <<"B", k, <<"T", q[1], q[2]>>, <<"T", r[1], r[2]>> >>
    ELSE <<"B", k, <<"B", kl, p, <<"T", q[1], q[2]>> >>, <<"T", r[1], r[2]>> >>

\* the terms buried to the left in a Surrounded problem
BuriedTerms == {<<"T", "cy", 3>>, <<"T", "cx", 2>>}

\* the parent of N, when N is not the root: its kind and its other operand
Contexts == {<<"Add", <<"T", "cy", 6>> >>,
             <<"Mul", <<"B", "Add", <<"T", "cy", 2>>, <<"T", "cy", 4>> >> >>}

\* N as the whole problem, or as the left or the right operand of a parent
Problem(pos, ctx, n) ==
    CASE pos = "root" -> n
      [] pos = "left" -> <<"B", ctx[1], n, ctx[2]>>
      [] pos = "right" -> <<"B", ctx[1], ctx[2], n>>

Init ==
    \E shape \in {POS_NATURAL, POS_SURROUNDED}, pos \in {"root", "left", "right"} :
    \E k \in AddSub, q \in Forms \X Coefs, r \in Forms \X Coefs :
    \E kl \in IF shape = POS_SURROUNDED THEN AddSub ELSE {"Add"} :
    \E p \in IF shape = POS_SURROUNDED THEN BuriedTerms ELSE {<<"T", "cy", 3>>} :
    \E ctx \in IF pos = "root" THEN {<<"Add", <<"T", "cy", 6>> >>} ELSE Contexts :
        /\ arena = Parse(<<>>, Problem(pos, ctx, Candidate(shape, kl, k, p, q, r)))
        /\ root = Len(arena)
        /\ change = NoChange
        /\ error = "none"
        /\ last = NoLast
        /\ steps = 0
        /\ query = NoQuery
        /\ gym = Unused
        /\ net = Unused
        /\ pool = Unused

(***************************************************************************)
(* Actions.                                                                *)
(***************************************************************************)
\* the state a call of applyTo leaves, given what the call returned
Outcome(out, op) ==
    /\ arena' = out.arena
    /\ change' = out.change
    /\ error' = out.error
    /\ last' = [out.locals EXCEPT !.op = op]
    /\ root' = IF out.error = "none" THEN getRoot(out.arena, out.change.result)
               ELSE root
    /\ steps' = steps + 1
    /\ query' = NoQuery
    /\ UNCHANGED <<gym, net, pool>>

\* a legal action: applyTo on a node of the current tree that canApplyTo accepts
Apply ==
    /\ error = "none"
    /\ last.op # "misused"
    /\ steps < MaxSteps
    /\ \E n \in Descendants(arena, root) :
          /\ canApplyTo(arena, n)
          /\ \E out \in {applyTo(arena, n)} : Outcome(out, "applied")

\* applyTo on a node that canApplyTo rejects; the state is discarded afterwards
Misuse ==
    /\ error = "none"
    /\ last.op # "misused"
    /\ steps < MaxSteps
    /\ \E n \in Descendants(arena, root) :
          /\ ~canApplyTo(arena, n)
          /\ \E out \in {applyTo(arena, n)} : Outcome(out, "misused")

Next == Apply \/ Misuse

Spec == Init /\ [][Next]_vars

(***************************************************************************)
(* canApplyTo as a query of the environment: enumerateActions evaluates it *)
(* on the nodes of the current tree, between rule applications.            *)
(***************************************************************************)
\* the problems of the query specification: coefficients 2 and 3
QueryValues == {2, 3, 6}

QueryInit ==
    /\ Init
    /\ \A n \in DOMAIN arena :
          arena[n].kind = "Const" => arena[n].value \in QueryValues

\* canApplyTo(n) on a node of the current tree: the call has no assignment
\* to a node, and its returned value is kept
Query ==
    /\ error = "none"
    /\ \E n \in Descendants(arena, root) :
          query' = [node |-> n, result |-> canApplyTo(arena, n)]
    /\ UNCHANGED <<arena, root, change, error, last, steps, gym, net, pool>>

QueryNext == Query \/ Apply

QuerySpec == QueryInit /\ [][QueryNext]_vars

(***************************************************************************)
(* Properties.                                                             *)
(***************************************************************************)
\* the nodes of the current tree
Tree == Descendants(arena, root)

\* the last step was a legal rule application
Applied == last.op = "applied"

AppliedNatural == Applied /\ last.tree_position = POS_NATURAL

AppliedSurrounded == Applied /\ last.tree_position = POS_SURROUNDED

\* C1: the whole tree evaluates to the same number before and after every
\* accepted applyTo(N), for every assignment of values to the variables, in
\* the Natural and the Surrounded configuration and for every combination of
\* Add/Subtract kinds of N and N.left.
C1_ValuePreserved ==
    [][last'.op = "applied" =>
         \A env \in Assignments :
             evaluate(arena', root', env) = evaluate(arena, root, env)]_vars

\* back-reference consistency of the tree reachable from node r
OneParentless(A, D) == Cardinality({n \in D : A[n].parent = 0}) = 1

StoredInParentSlot(A, D) ==
    \A n \in D :
        A[n].parent # 0 =>
            /\ (A[A[n].parent].left = n) # (A[A[n].parent].right = n)
            /\ A[n].parent \in D

NoSharedChild(A, D) ==
    \A m \in D : \A n \in {A[m].left, A[m].right} \ {0} : A[n].parent = m

\* C2: after any sequence of accepted applyTo calls the tree reachable from
\* the root has exactly one parentless node, every node is stored in exactly
\* the child slot of the node its parent reference names, and no node is
\* referenced as a child by two nodes.
C2_BackReferencesConsistent ==
    last.op # "misused" =>
        \A D \in {Tree} :
            /\ OneParentless(arena, D)
            /\ StoredInParentSlot(arena, D)
            /\ NoSharedChild(arena, D)

\* C3: applyTo on a node that canApplyTo rejects fails with the rule-misuse
\* error (the ValueError of line 91) and builds and splices nothing.
C3_MisuseRaisesRuleMisuse ==
    [][last'.op = "misused" => error' = "ValueError" /\ arena' = arena]_vars

(***************************************************************************)
(* The two configurations and the candidate terms, as the rule's contract  *)
(* states them.                                                            *)
(***************************************************************************)
NaturalShape(A, n) ==
    /\ isAddSubtract(A, n)
    /\ ~isAddSubtract(A, A[n].right)
    /\ ~isAddSubtract(A, A[n].left)

SurroundedShape(A, n) ==
    /\ isAddSubtract(A, n)
    /\ ~isAddSubtract(A, A[n].right)
    /\ isAddSubtract(A, A[n].left)

RecognisedShape(A, n) == NaturalShape(A, n) \/ SurroundedShape(A, n)

\* the left candidate operand of a node of a recognised shape
CandidateLeft(A, n) ==
    IF isAddSubtract(A, A[n].left) THEN A[A[n].left].right ELSE A[n].left

IsTerm(A, n) == getTerm(A, n).ok

SingleVariable(t) == t.ok /\ Len(t.variables) <= 1

MultiVariable(t) == t.ok /\ Len(t.variables) > 1

Trivial(f) == f.ok /\ f.best = 1 /\ f.variable = "" /\ f.exponent = 0

\* two single-variable terms with a common factor other than 1
Factorable(t, u) ==
    /\ SingleVariable(t)
    /\ SingleVariable(u)
    /\ \E f \in {factorAddTerms(t, u)} : f.ok /\ ~Trivial(f)

\* term t is the product of the terms f and g, g being a bare coefficient
IsProduct(t, f, g) ==
    /\ t.ok /\ f.ok /\ g.ok
    /\ g.variables = <<>>
    /\ t.coefficient = f.coefficient * g.coefficient
    /\ t.variables = f.variables
    /\ t.exponent = f.exponent

\* C4 (as claimed): in the Surrounded configuration the rule pairs N.right
\* with the term buried in N.left that is like it, so canApplyTo is true on
\* the outer Add of (2x + 3y) + 4x.
C4_PairsWithLikeBuriedTerm ==
    \A n \in Tree :
        (/\ SurroundedShape(arena, n)
         /\ \E m \in {arena[arena[n].left].left, arena[arena[n].left].right} :
               Factorable(getTerm(arena, m), getTerm(arena, arena[n].right)))
        => canApplyTo(arena, n)

\* C4 (amended): in the Surrounded configuration the rule pairs N.right with
\* N.left.right, whatever N.left.left is: canApplyTo is true on the outer
\* node exactly when N.left.right and N.right are single-variable terms with
\* a common factor other than 1 (true for (3y + 2x) + 4x, false for
\* (2x + 3y) + 4x); applyTo then factors N.left.right with N.right, takes
\* N.left.right out of the tree and leaves N.left.left reachable in it.
C4_PairsWithLeftRight ==
    /\ \A n \in Tree :
          SurroundedShape(arena, n) =>
              (canApplyTo(arena, n) <=>
                  Factorable(getTerm(arena, arena[arena[n].left].right),
                             getTerm(arena, arena[n].right)))
    /\ AppliedSurrounded =>
          \A D \in {Tree} :
              /\ last.left_interest \notin D
              /\ arena[last.left_link].left \in D
              /\ arena[arena[last.left_link].left].parent = last.left_link
              /\ IsProduct(getTerm(arena, last.left_interest),
                           getTerm(arena, last.a), getTerm(arena, last.b))
              /\ IsProduct(getTerm(arena, arena[last.node].right),
                           getTerm(arena, last.a), getTerm(arena, last.c))

\* C4 witness: a Surrounded application in which the term left buried in
\* N.left is not like N.right, as in (3y + 2x) + 4x
C4_Witness ==
    /\ AppliedSurrounded
    /\ ~termsAreLike(getTerm(arena, arena[last.left_link].left),
                     getTerm(arena, arena[last.node].right))

\* C5 (as claimed): in a Surrounded application only N.left is replaced by
\* the result; N stays in the same child slot of the same parent and no node
\* outside the subtree rooted at N changes.
C5_OnlyLeftReplaced ==
    [][(last'.op = "applied" /\ last'.tree_position = POS_SURROUNDED) =>
         \A n \in {last'.node} :
             /\ arena'[n].left = last'.result
             /\ arena'[n].parent = arena[n].parent
             /\ n \in Descendants(arena', root')
             /\ \A m \in (1..Len(arena)) \ Descendants(arena, n) :
                   arena'[m] = arena[m]]_vars

\* C5 (amended): in a Surrounded application the result replaces
\* N.left.right, and it is N.left, not N, that stays in the tree: N.left
\* takes N's parent reference and is stored in the LEFT child slot of N's
\* parent (it becomes the root when N has no parent), while N's own child
\* slots are not updated.  N drops out of the tree when it was the root or a
\* left child.  Outside the subtree rooted at N, the only changes are that
\* left slot of N's parent and the parent reference of the node it held.
C5_SurroundedSplice ==
    [][(last'.op = "applied" /\ last'.tree_position = POS_SURROUNDED) =>
         \A n \in {last'.node} :
         \A L \in {arena[n].left} :
         \A P \in {arena[n].parent} :
             /\ arena'[L].right = last'.result
             /\ arena'[L].left = arena[L].left
             /\ arena'[L].parent = P
             /\ P # 0 => arena'[P].left = L
             /\ P = 0 => root' = L
             /\ arena'[n].left = L
             /\ arena'[n].right = arena[n].right
             /\ (P = 0 \/ arena[P].left = n) => n \notin Descendants(arena', root')
             /\ \A m \in (1..Len(arena)) \ Descendants(arena, n) :
                   \/ arena'[m] = arena[m]
                   \/ m = P /\ arena'[m] = [arena[m] EXCEPT !.left = L]
                   \/ /\ P # 0
                      /\ m = arena[P].left
                      /\ arena'[m] = [arena[m] EXCEPT !.parent = 0]]_vars

\* C5 witness: a Surrounded application on a node that has a parent
C5_Witness == AppliedSurrounded /\ last.parent # 0

\* C6: canApplyTo(N) is false whenever factorAddTerms finds no common factor
\* for the two candidate terms or returns the trivial one (coefficient 1, no
\* variable, no exponent).
C6_NoOrTrivialFactorRejected ==
    \A n \in Tree :
        RecognisedShape(arena, n) =>
            \A f \in {factorAddTerms(getTerm(arena, CandidateLeft(arena, n)),
                                     getTerm(arena, arena[n].right))} :
                (~f.ok \/ Trivial(f)) => ~canApplyTo(arena, n)

\* C6 witness: a node of a recognised shape over two single-variable terms
\* that have no common factor
C6_Witness ==
    \E n \in Tree :
        /\ RecognisedShape(arena, n)
        /\ SingleVariable(getTerm(arena, CandidateLeft(arena, n)))
        /\ SingleVariable(getTerm(arena, arena[n].right))
        /\ ~factorAddTerms(getTerm(arena, CandidateLeft(arena, n)),
                           getTerm(arena, arena[n].right)).ok
        /\ ~canApplyTo(arena, n)

\* C7: canApplyTo(N) is true only if N is an Add or Subtract whose right
\* child is a term and no Add/Subtract, and whose left operand is a term
\* (Natural) or an Add/Subtract whose right child is a term (Surrounded).
C7_OnlyRecognisedShapes ==
    \A n \in Tree :
        canApplyTo(arena, n) =>
            /\ isAddSubtract(arena, n)
            /\ ~isAddSubtract(arena, arena[n].right)
            /\ IsTerm(arena, arena[n].right)
            /\ \/ IsTerm(arena, arena[n].left)
               \/ /\ isAddSubtract(arena, arena[n].left)
                  /\ IsTerm(arena, arena[arena[n].left].right)

\* C7 witness: a tree holding an accepted Surrounded node, and an
\* Add/Subtract that is rejected because its right child is an Add/Subtract
C7_Witness ==
    /\ \E n \in Tree : SurroundedShape(arena, n) /\ canApplyTo(arena, n)
    /\ \E m \in Tree :
          /\ isAddSubtract(arena, m)
          /\ isAddSubtract(arena, arena[m].right)
          /\ ~canApplyTo(arena, m)

\* C8: canApplyTo(N) is false whenever one of the two candidate terms holds
\* more than one distinct variable, whether or not the terms share a factor.
C8_MultiVariableRejected ==
    \A n \in Tree :
        (/\ RecognisedShape(arena, n)
         /\ \/ MultiVariable(getTerm(arena, CandidateLeft(arena, n)))
            \/ MultiVariable(getTerm(arena, arena[n].right)))
        => ~canApplyTo(arena, n)

\* C8 witness: a node of a recognised shape over two like two-variable terms
\* that do share a common factor
C8_Witness ==
    \E n \in Tree :
        /\ RecognisedShape(arena, n)
        /\ MultiVariable(getTerm(arena, CandidateLeft(arena, n)))
        /\ factorAddTerms(getTerm(arena, CandidateLeft(arena, n)),
                          getTerm(arena, arena[n].right)).ok
        /\ ~canApplyTo(arena, n)

\* C9: in both configurations applyTo(N) produces a Multiply whose left child
\* is inside and whose right child is the common factor a; inside is an Add
\* of (b, c) when N is an Add and a Subtract of (b, c) when N is a Subtract,
\* b being the left residual and c the right residual.
C9_ResultIsInsideTimesFactor ==
    Applied =>
        \A res \in {change.result} :
        \A inside \in {arena[res].left} :
        \A a \in {arena[res].right} :
            /\ arena[res].kind = "Mul"
            /\ arena[inside].kind \in AddSub
            /\ arena[inside].kind = arena[change.node].kind
            /\ arena[inside].parent = res
            /\ arena[a].parent = res
            /\ getTerm(arena, a).ok
            /\ \E f \in {factorAddTerms(getTerm(arena, last.left_interest),
                                        getTerm(arena, arena[change.node].right))} :
                  /\ getTerm(arena, a) =
                        Term(f.best,
                             IF f.variable = "" THEN <<>> ELSE <<f.variable>>,
                             f.exponent)
                  /\ getTerm(arena, arena[inside].left) = Term(f.left, <<>>, 0)
                  /\ getTerm(arena, arena[inside].right) = Term(f.right, <<>>, 0)
            /\ IsProduct(getTerm(arena, last.left_interest),
                         getTerm(arena, a), getTerm(arena, arena[inside].left))
            /\ IsProduct(getTerm(arena, arena[change.node].right),
                         getTerm(arena, a), getTerm(arena, arena[inside].right))

\* C9 witness: an application on a Subtract node with unequal residuals
C9_Witness ==
    /\ Applied
    /\ arena[change.node].kind = "Sub"
    /\ last.factors.left # last.factors.right

\* the subtree at n on its own: every node outside it blanked, n parentless
Isolate(A, n) ==
    [i \in DOMAIN A |->
        IF i = n THEN [A[i] EXCEPT !.parent = 0]
        ELSE IF i \in Descendants(A, n) THEN A[i]
        ELSE ConstantExpression(0)]

\* C11: a canApplyTo(N) call changes no node, child slot or parent reference
\* of the tree (nor the root or the Change Record), its result is the one
\* computed from the subtree at N alone, and a second call on the same node
\* of an unchanged tree returns the same value.
C11_CanApplyToIsPure ==
    [][query' # query /\ query'.node # 0 =>
         /\ arena' = arena /\ root' = root /\ change' = change
         /\ query'.result = canApplyTo(Isolate(arena, query'.node), query'.node)
         /\ (query.node = query'.node => query'.result = query.result)]_vars

\* a node under a parent was queried and accepted after a rule application
C11_Witness ==
    /\ steps >= 1
    /\ query.node # 0
    /\ query.result
    /\ arena[query.node].parent # 0

\* C10: the Change Record returned by applyTo has its focus set to the new
\* inside node in the Natural and in the Surrounded configuration alike.
C10_FocusIsInside ==
    Applied => (change.focus # 0 /\ change.focus = arena[change.result].left)

(***************************************************************************)
(* MathyGymEnv (mathy/gym/mathy_gym_env.py) over the environment state     *)
(* machine.  The state machine is seen through the calls the wrapper       *)
(* makes: a state is its turn counter, the node count of its tree, its     *)
(* valid-move mask and whether the tree is in solved form.  Actions are    *)
(* indexed from 0, action a = node * NumRules + rule; mask[a + 1] is its   *)
(* entry.                                                                  *)
(***************************************************************************)
\* rules in the library (the policy's predictions per node)
NumRules == 2
\* the configured maximum node count
MaxNodes == 2
\* the configured maximum number of turns
MaxTurns == 2
\* resets of one environment in one behaviour
MaxEpisodes == 2

\* MathyEnv.action_size as the wrapper sizes the action space (line 56)
action_size == NumRules * MaxNodes

Actions == 0..(action_size - 1)

Masks(n) == [1..n -> {0, 1}]

\* MathyEnv.get_agent_actions_count: number of rules times nodes of the tree
get_agent_actions_count(state) == NumRules * state.nodes

\* MathyEnv.get_valid_moves: the mask of the legal (rule, node) pairs
get_valid_moves(state) == state.moves

\* no entry of the mask is set
NoMoves(mask) == \A i \in DOMAIN mask : mask[i] = 0

\* a mask cut to the actions of a tree of n nodes: indices beyond the
\* tree's nodes are illegal
Clip(mask, n) == [i \in DOMAIN mask |-> IF i > NumRules * n THEN 0 ELSE mask[i]]

\* the legal moves of a generated problem: every pair, none, only the first
\* action, or all but the first
ProblemMoves ==
    {[i \in 1..action_size |-> 1],
     [i \in 1..action_size |-> 0],
     [i \in 1..action_size |-> IF i = 1 THEN 1 ELSE 0],
     [i \in 1..action_size |-> IF i = 1 THEN 0 ELSE 1]}

\* MathyEnv.get_initial_state: turn 0, an unsolved problem
get_initial_state ==
    {[turn |-> 0, nodes |-> n, moves |-> Clip(m, n), solved |-> FALSE] :
        n \in 1..MaxNodes, m \in ProblemMoves}

\* MathyEnv.get_action_indices: the rule and the node of an action
get_action_indices(action) ==
    [action_index |-> action % NumRules, token_index |-> action \div NumRules]

\* the termination verdict of a state: solved, exhausted or timed out
Terminal(state) ==
    state.solved \/ NoMoves(state.moves) \/ state.turn > MaxTurns

\* the node count of the tree after a rewrite: one less, the same, one more
NodesAfter(state) == {state.nodes - 1, state.nodes, state.nodes + 1} \cap (1..MaxNodes)

\* the legal moves after a rewrite: the rule no longer applies where it was
\* applied, or the moves are those of the nodes one index to the left (the
\* traversal indices move), or every pair is legal
MovesAfter(state, action) ==
    {[i \in 1..action_size |-> IF i = action + 1 THEN 0 ELSE state.moves[i]],
     [i \in 1..action_size |-> IF i > NumRules THEN state.moves[i - NumRules] ELSE 0],
     [i \in 1..action_size |-> 1]}

\* MathyEnv.get_next_state on a legal action: the turn counter incremented,
\* the tree rewritten, the transition and the Change Record
get_next_state(state, action) ==
    {[state |-> [turn |-> state.turn + 1, nodes |-> n,
                 moves |-> Clip(m, n), solved |-> sv],
      transition |-> [terminal |-> Terminal([turn |-> state.turn + 1, nodes |-> n,
                                             moves |-> Clip(m, n), solved |-> sv]),
                      reward |-> IF sv THEN 1 ELSE -1],
      change |-> [rule |-> get_action_indices(action).action_index,
                  node |-> get_action_indices(action).token_index,
                  turn |-> state.turn + 1]] :
        n \in NodesAfter(state), m \in MovesAfter(state, action), sv \in BOOLEAN}

\* util.is_terminal_transition
is_terminal_transition(transition) == transition.terminal

\* MathyEnvState.to_input_features: the observation carries the move mask
to_input_features(state, action_mask) ==
    [policy_mask |-> action_mask, nodes |-> state.nodes, turn |-> state.turn]

None == [none |-> TRUE]

\* MathyGymEnv.__init__
MathyGymEnv ==
    [state |-> None,
     last_action |-> -1,
     last_change |-> None,
     action_space |-> [n |-> action_size, mask |-> [i \in 1..action_size |-> 1]],
     observation |-> None,
     reward |-> 0,
     done |-> FALSE,
     error |-> "none",
     rendered |-> "",
     episodes |-> 0,
     steps_taken |-> 0,
     stepped |-> FALSE]

\* _observe that leaves the action space as it was
_observe_keeps_action_space(env, state) ==
    [env EXCEPT !.observation = to_input_features(state, get_valid_moves(state))]

\* MathyGymEnv._observe
_observe(env, state) ==
    [env EXCEPT
        !.observation = to_input_features(state, get_valid_moves(state)),
        !.action_space = [n |-> get_agent_actions_count(state),
                          mask |-> get_valid_moves(state)]]

\* MathyGymEnv.step, given what get_next_state returned
step(env, action, out) ==
    [_observe([env EXCEPT !.state = out.state], out.state) EXCEPT
        !.reward = out.transition.reward,
        !.done = is_terminal_transition(out.transition),
        !.last_action = action,
        !.last_change = out.change,
        !.steps_taken = @ + 1,
        !.stepped = TRUE]

\* reset that keeps the last action and change
reset_keeps_last(env, initial) ==
    [_observe([env EXCEPT !.state = initial], initial) EXCEPT
        !.done = FALSE,
        !.error = "none",
        !.rendered = "",
        !.episodes = @ + 1,
        !.steps_taken = 0]

\* MathyGymEnv.reset, given what get_initial_state returned
reset(env, initial) ==
    [_observe([env EXCEPT !.last_action = -1,
                          !.last_change = None,
                          !.state = initial], initial) EXCEPT
        !.done = FALSE,
        !.error = "none",
        !.rendered = "",
        !.episodes = @ + 1,
        !.steps_taken = 0]

\* MathyGymEnv.render: the action name printed
render(env) ==
    [env EXCEPT !.rendered =
        IF env.last_action # -1 /\ env.last_change # None
        THEN "action" ELSE "initial"]

\* an episode is under way: reset, neither done nor failed
Running(env) == env.state # None /\ ~env.done /\ env.error = "none"

GymFrame == UNCHANGED <<arena, root, change, error, last, steps, query, net, pool>>

GymInit ==
    /\ gym = MathyGymEnv
    /\ net = Unused
    /\ pool = Unused
    /\ query = NoQuery
    /\ arena = <<>>
    /\ root = 0
    /\ change = NoChange
    /\ error = "none"
    /\ last = NoLast
    /\ steps = 0

Reset ==
    /\ gym.episodes < MaxEpisodes
    /\ \E initial \in get_initial_state : gym' = reset(gym, initial)
    /\ GymFrame

\* step on a legal action
Step ==
    /\ Running(gym)
    /\ \E action \in Actions :
          /\ gym.state.moves[action + 1] = 1
          /\ \E out \in get_next_state(gym.state, action) :
                gym' = [step(gym, action, out) EXCEPT !.rendered = ""]
    /\ GymFrame

\* step on an action outside the legal set: get_next_state fails at line 110
\* and nothing is assigned
StepInvalid ==
    /\ Running(gym)
    /\ \E action \in Actions :
          /\ gym.state.moves[action + 1] = 0
          /\ gym' = [gym EXCEPT !.error = "InvalidActionError", !.rendered = ""]
    /\ GymFrame

Render ==
    /\ gym.state # None
    /\ gym.rendered = ""
    /\ gym' = render(gym)
    /\ GymFrame

GymNext == Reset \/ Step \/ StepInvalid \/ Render

GymSpec == GymInit /\ [][GymNext]_vars

(***************************************************************************)
(* Properties of the Gym wrapper.                                          *)
(***************************************************************************)
\* C13: after reset and after every step, action_space.mask is the
\* valid-move mask of the current state and action_space.n is its agent
\* action count.
C13_ActionSpaceIsCurrent ==
    gym.state # None =>
        /\ gym.action_space.mask = get_valid_moves(gym.state)
        /\ gym.action_space.n = get_agent_actions_count(gym.state)

\* a second step was taken, into a state with fewer actions than the
\* action space was built with and with an illegal action among them
C13_Witness ==
    /\ gym.state # None
    /\ gym.steps_taken >= 2
    /\ gym.action_space.n < action_size
    /\ gym.action_space.mask[1] = 0

\* C18: from reset until the next step last_action is -1 and last_change is
\* None; after a step they are the action and the Change Record of that
\* step; render reports "initial" exactly when no step was taken since the
\* last reset.
C18_LastActionAndChange ==
    gym.state # None =>
        /\ gym.steps_taken = 0 =>
              gym.last_action = -1 /\ gym.last_change = None
        /\ gym.steps_taken > 0 =>
              /\ gym.last_action \in Actions
              /\ gym.last_change # None
              /\ gym.last_change.turn = gym.state.turn
              /\ gym.last_change.rule = get_action_indices(gym.last_action).action_index
              /\ gym.last_change.node = get_action_indices(gym.last_action).token_index
        /\ gym.rendered # "" =>
              (gym.rendered = "initial" <=> gym.steps_taken = 0)

\* render after a reset that followed steps of an earlier episode
C18_Witness ==
    /\ gym.stepped
    /\ gym.steps_taken = 0
    /\ gym.episodes = MaxEpisodes
    /\ gym.rendered = "initial"

(***************************************************************************)
(* ActorCriticModel (mathy/a3c/actor_critic_model.py): the masking of the  *)
(* policy.  A tensor of one example, of shape (1, nodes, predictions), is   *)
(* the sequence of its entries in row-major order: entry                   *)
(* node * predictions + rule + 1 holds the value of that (node, rule)      *)
(* pair.  Logits are integers.  A probability vector is a sequence of      *)
(* numerators over one denominator; exp is in hundredths.                  *)
(***************************************************************************)
\* the value written over the 0s of the mask (line 67)
MASK_FILL == -1000000

\* float32: exp(d) is 0 for d below -ExpUnderflow.  exp(-103) is about
\* 1.9e-45 and rounds to a positive subnormal (the smallest is 2^-149, about
\* 1.4e-45); exp(-104) is about 6.8e-46, below half of it, and rounds to 0
ExpUnderflow == 103

\* the logits the policy head can produce for one action
LogitValues == {-1, 0, 1}

Logits(n) == [1..n -> LogitValues]

\* the shapes <<nodes, predictions>> of the logits of one example: the
\* default predictions = 2 (line 20) over 1..MaxNodes nodes, and one row of
\* predictions = action_size (a3c_worker.py line 57)
Shapes == {<<n, NumRules>> : n \in 1..MaxNodes} \cup {<<1, action_size>>}

\* ActorCriticModel.apply_pi_mask: the 0s of the mask become MASK_FILL, the
\* logits are trimmed to the mask and multiplied by it
apply_pi_mask(logits, policy_mask) ==
    [i \in 1..Len(policy_mask) |->
        logits[i] * (IF policy_mask[i] = 0 THEN MASK_FILL ELSE policy_mask[i])]

RECURSIVE SumOver(_, _)
SumOver(f, S) ==
    IF S = {} THEN 0
    ELSE LET x == CHOOSE y \in S : TRUE IN f[x] + SumOver(f, S \ {x})

RECURSIVE ProductOver(_, _)
ProductOver(f, S) ==
    IF S = {} THEN 1
    ELSE LET x == CHOOSE y \in S : TRUE IN f[x] * ProductOver(f, S \ {x})

MaxOf(S) == CHOOSE m \in S : \A x \in S : x <= m

\* exp(d) for d <= 0, in hundredths: 0 exactly where float32 gives 0
Exp(d) ==
    IF d < -ExpUnderflow THEN 0
    ELSE CASE d = 0 -> 100
           [] d = -1 -> 37
           [] d = -2 -> 14
           [] d = -3 -> 5
           [] d = -4 -> 2
           [] OTHER -> 1

\* the entries normalised together with entry i by a softmax along axis 0
\* of tf.squeeze(logits): squeeze drops every axis of size 1, so with one
\* node or one prediction the tensor is a vector and axis 0 holds all its
\* entries; otherwise axis 0 is the node axis and the entries are those of
\* the same rule
Axis0(v, predictions, i) ==
    IF Len(v) \div predictions = 1 \/ predictions = 1 THEN DOMAIN v
    ELSE {k \in DOMAIN v : (k - 1) % predictions = (i - 1) % predictions}

\* tf.nn.softmax(tf.squeeze(logits), axis=0), flattened by tf.reshape
softmax(v, predictions) ==
    LET weight == [i \in DOMAIN v |->
                     Exp(v[i] - MaxOf({v[k] : k \in Axis0(v, predictions, i)}))]
        total == [i \in DOMAIN v |-> SumOver(weight, Axis0(v, predictions, i))]
        lead == {i \in DOMAIN v : \A k \in Axis0(v, predictions, i) : i <= k}
    IN [num |-> [i \in DOMAIN v |->
                    weight[i] * ProductOver(total,
                                    {l \in lead : l \notin Axis0(v, predictions, i)})],
        den |-> ProductOver(total, lead)]

\* the sum of a probability vector is 1
SumsToOne(probs) == SumOver(probs.num, DOMAIN probs.num) = probs.den

\* ActorCriticModel.call_masked: the logits of call (masked by the policy
\* mask of the features), and the probabilities multiplied by the mask and
\* re-scaled when their sum is positive
call_masked(predictions, logits, policy_mask, mask) ==
    LET mask_logits == apply_pi_mask(logits, policy_mask)
        probs == softmax(mask_logits, predictions)
        wiped == [i \in 1..Len(mask) |-> probs.num[i] * mask[i]]
        pi_sum == SumOver(wiped, DOMAIN wiped)
    IN [logits |-> mask_logits,
        probs |-> [num |-> wiped,
                   den |-> IF pi_sum > 0 THEN pi_sum ELSE probs.den]]

\* one call of the model in run_episode: self.predictions, the output of
\* the policy head, the mask of the action space, and what the calls returned
Policy(predictions, logits, mask) ==
    [predictions |-> predictions,
     logits |-> logits,
     mask |-> mask,
     mask_logits |-> <<>>,
     probs |-> None,
     action |-> -1,
     error |-> "none"]

NetFrame == UNCHANGED <<arena, root, change, error, last, steps, query, gym, pool>>

NetInit ==
    /\ \E shape \in Shapes :
       \E logits \in Logits(shape[1] * shape[2]), mask \in Masks(shape[1] * shape[2]) :
          net = Policy(shape[2], logits, mask)
    /\ gym = Unused
    /\ pool = Unused
    /\ query = NoQuery
    /\ arena = <<>>
    /\ root = 0
    /\ change = NoChange
    /\ error = "none"
    /\ last = NoLast
    /\ steps = 0

\* apply_pi_mask on the output of the policy head (line 51)
ApplyPiMask ==
    /\ net.mask_logits = <<>>
    /\ net.probs = None
    /\ net' = [net EXCEPT !.mask_logits = apply_pi_mask(net.logits, net.mask)]
    /\ NetFrame

\* call_masked(current_state, env.action_space.mask) (lines 92-94): the
\* policy mask of the observation is the mask of the action space
CallMasked ==
    /\ net.probs = None
    /\ \E out \in {call_masked(net.predictions, net.logits, net.mask, net.mask)} :
          net' = [net EXCEPT !.mask_logits = out.logits, !.probs = out.probs]
    /\ NetFrame

\* np.random.choice(len(probs), p=probs) (line 97): an action of positive
\* probability
Choice ==
    /\ net.probs # None
    /\ net.action = -1
    /\ net.error = "none"
    /\ SumsToOne(net.probs)
    /\ \E a \in 0..(Len(net.probs.num) - 1) :
          /\ net.probs.num[a + 1] > 0
          /\ net' = [net EXCEPT !.action = a]
    /\ NetFrame

\* np.random.choice rejects probabilities that do not sum to 1
ChoiceFails ==
    /\ net.probs # None
    /\ net.action = -1
    /\ net.error = "none"
    /\ ~SumsToOne(net.probs)
    /\ net' = [net EXCEPT !.error = "ValueError"]
    /\ NetFrame

NetNext == ApplyPiMask \/ CallMasked \/ Choice \/ ChoiceFails

NetSpec == NetInit /\ [][NetNext]_vars

(***************************************************************************)
(* Properties of the masking.                                              *)
(***************************************************************************)
\* C14: for a state that has a valid action, call_masked gives probability
\* 0 to every action whose mask entry is 0 and returns probabilities that
\* sum to 1, and the action chosen from them and passed to env.step has
\* mask entry 1.
C14_OnlyValidActions ==
    net.probs # None /\ ~NoMoves(net.mask) =>
        /\ \A i \in DOMAIN net.mask : net.mask[i] = 0 => net.probs.num[i] = 0
        /\ SumsToOne(net.probs)
        /\ net.action # -1 => net.mask[net.action + 1] = 1

\* C19: after apply_pi_mask the masked logit of every invalid move is lower
\* than the masked logit of every valid move, whatever the logits are.
C19_InvalidBelowValid ==
    net.mask_logits # <<>> =>
        \A i, j \in DOMAIN net.mask :
            net.mask[i] = 0 /\ net.mask[j] = 1 =>
                net.mask_logits[i] < net.mask_logits[j]

(***************************************************************************)
(* A3CWorker.run_episode (mathy/a3c/a3c_worker.py, lines 82-112) driving   *)
(* one MathyGymEnv: reset, then, while not done, call_masked on the        *)
(* observation and the mask of the action space, np.random.choice on the   *)
(* probabilities, and env.step on the action chosen.  The local model is   *)
(* built with predictions = action_size (line 57).                         *)
(***************************************************************************)
\* the outputs of the policy head in the loop: every action has logit 0, or
\* all but one have
LoopLogits ==
    {[i \in 1..action_size |-> IF i = k THEN v ELSE 0] :
        k \in 1..action_size, v \in LogitValues}

\* the probabilities call_masked returns in the loop (lines 92-94) when the
\* policy head gives these logits: the policy mask of the observation and
\* the mask of the action space are the one action_mask of _observe
LoopProbs(mask, logits) == call_masked(action_size, logits, mask, mask).probs

\* np.random.choice (line 97), for every mask: the actions it can return,
\* those of positive probability for some logits whose probabilities sum
\* to 1
Choices ==
    {pair \in Masks(action_size) \X Actions :
        \E logits \in LoopLogits :
            /\ SumsToOne(LoopProbs(pair[1], logits))
            /\ LoopProbs(pair[1], logits).num[pair[2] + 1] > 0}

\* the actions np.random.choice can return under a mask
Chosen(mask) == {action \in Actions : <<mask, action>> \in Choices}

\* the masks under which np.random.choice can raise: for some logits the
\* probabilities do not sum to 1
ChoiceFailures ==
    {mask \in Masks(action_size) :
        \E logits \in LoopLogits : ~SumsToOne(LoopProbs(mask, logits))}

ChoiceCanFail(mask) == mask \in ChoiceFailures

\* env.reset() of line 83: the first episode, or the one after an episode
\* that was done
EpisodeReset ==
    /\ gym.state = None \/ gym.done
    /\ gym.error = "none"
    /\ Reset

\* one pass of the loop in which np.random.choice returns an action, of
\* positive probability, and env.step is called on it (lines 92-100)
EpisodeStep ==
    /\ Running(gym)
    /\ \E action \in Chosen(gym.action_space.mask) :
          \E out \in get_next_state(gym.state, action) :
             gym' = [step(gym, action, out) EXCEPT !.rendered = ""]
    /\ GymFrame

\* one pass of the loop in which the probabilities do not sum to 1:
\* np.random.choice raises ValueError at line 97, env.step is not called
\* and the exception leaves run_episode
EpisodeChoiceFails ==
    /\ Running(gym)
    /\ ChoiceCanFail(gym.action_space.mask)
    /\ gym' = [gym EXCEPT !.error = "ValueError", !.rendered = ""]
    /\ GymFrame

EpisodeNext == EpisodeReset \/ EpisodeStep \/ EpisodeChoiceFails

\* the thread runs: a pass of the loop that has begun comes to its end
GymFairSpec ==
    GymInit /\ [][EpisodeNext]_vars /\ WF_vars(EpisodeStep \/ EpisodeChoiceFails)

\* C12: every step that takes the turn counter past the configured maximum
\* reports done = true, no episode takes more than MaxTurns + 1 steps, and
\* every episode under way in a state that has a legal move is eventually
\* reported done, so that the loop "while not done" of run_episode exits.
C12_EpisodeTerminates ==
    /\ [](gym.state # None =>
            /\ gym.steps_taken <= MaxTurns + 1
            /\ (gym.steps_taken > 0 /\ gym.state.turn > MaxTurns => gym.done))
    /\ (Running(gym) /\ ~NoMoves(gym.state.moves) ~> gym.done)

(***************************************************************************)
(* A3CWorker (mathy/a3c/a3c_worker.py): the worker threads, their          *)
(* class-level variables global_episode and save_lock, and the result      *)
(* queue.  A thread is at one of the positions                             *)
(*   "loop"     the test of the while of run (line 78)                     *)
(*   "episode"  run_episode up to the call of finish_episode               *)
(*   "dead"     the thread has ended by an exception raised in run_episode *)
(*   "record"   the call of record in finish_episode (lines 134-142)       *)
(*   "check"    the test of line 144                                       *)
(*   "acquire"  entering "with A3CWorker.save_lock" (line 145)             *)
(*   "save"     print and global_model.save_weights (lines 146-150)        *)
(*   "read"     A3CWorker.global_episode += 1: the read (line 151)         *)
(*   "write"    A3CWorker.global_episode += 1: the store (line 151)        *)
(*   "put"      result_queue.put(None) (line 80)                           *)
(*   "done"     the thread has ended                                       *)
(* The augmented assignment of line 151 is a read followed by a store;     *)
(* another thread can run between the two.                                 *)
(***************************************************************************)
\* number of worker threads
NumWorkers == 2
\* args.max_eps
MaxEps == 2

\* A3CWorker.save_every_n_episodes (line 28)
save_every_n_episodes == 100

Workers == 1..NumWorkers

\* the class-level variables, the queue and the threads at their start;
\* finished counts the calls of finish_episode that returned, reached records
\* that global_episode was max_eps or more at some moment
A3CWorker ==
    [global_episode |-> 0,
     save_lock |-> 0,
     result_queue |-> <<>>,
     pc |-> [w \in Workers |-> "loop"],
     read |-> [w \in Workers |-> 0],
     finished |-> 0,
     reached |-> FALSE,
     record_puts |-> FALSE]

\* a lock that any thread can take at any time
lock_free_always(p) == TRUE

\* threading.Lock: acquire blocks while another thread holds the lock
lock_free(p) == p.save_lock = 0

\* a put that leaves the queue as it was
put_nothing(queue, item) == queue

\* Queue.put
put(queue, item) == Append(queue, item)

\* an item of the queue that is not None: the reward of an episode
Reward == [none |-> FALSE]

\* the number of None sentinels on a queue
Sentinels(queue) == Cardinality({i \in DOMAIN queue : queue[i] = None})

At(p, w, pos) == p.pc[w] = pos

Goto(p, w, pos) == [p EXCEPT !.pc[w] = pos]

PoolFrame == UNCHANGED <<arena, root, change, error, last, steps, query, gym, net>>

PoolInit ==
    /\ \E puts \in BOOLEAN : pool = [A3CWorker EXCEPT !.record_puts = puts]
    /\ gym = Unused
    /\ net = Unused
    /\ query = NoQuery
    /\ arena = <<>>
    /\ root = 0
    /\ change = NoChange
    /\ error = "none"
    /\ last = NoLast
    /\ steps = 0

\* while A3CWorker.global_episode < self.args.max_eps (line 78)
LoopTest(w) ==
    /\ At(pool, w, "loop")
    /\ pool' = Goto(pool, w, IF pool.global_episode < MaxEps THEN "episode" ELSE "put")
    /\ PoolFrame

\* run_episode until the episode is done and finish_episode is called
RunEpisode(w) ==
    /\ At(pool, w, "episode")
    /\ pool' = Goto(pool, w, "record")
    /\ PoolFrame

\* run_episode left by an exception: np.random.choice (line 97) rejects
\* probabilities that are all 0, or env.step (line 100) rejects the action;
\* run has no handler, the thread ends there
RunEpisodeRaises(w) ==
    /\ At(pool, w, "episode")
    /\ pool' = Goto(pool, w, "dead")
    /\ PoolFrame

\* record(..., self.result_queue, ...) (lines 134-142): it is handed the
\* queue; whether it puts the reward of the episode on it (record_puts) is
\* fixed for a run
Record(w) ==
    /\ At(pool, w, "record")
    /\ pool' = [Goto(pool, w, "check") EXCEPT
                    !.result_queue = IF pool.record_puts
                                     THEN put(pool.result_queue, Reward)
                                     ELSE pool.result_queue]
    /\ PoolFrame

\* if A3CWorker.global_episode % A3CWorker.save_every_n_episodes == 0
CheckSave(w) ==
    /\ At(pool, w, "check")
    /\ pool' = Goto(pool, w, IF pool.global_episode % save_every_n_episodes = 0
                             THEN "acquire" ELSE "read")
    /\ PoolFrame

\* with A3CWorker.save_lock: entry
Acquire(w) ==
    /\ At(pool, w, "acquire")
    /\ lock_free(pool)
    /\ pool' = [Goto(pool, w, "save") EXCEPT !.save_lock = w]
    /\ PoolFrame

\* print, save_weights, and the exit of the with block
SaveWeights(w) ==
    /\ At(pool, w, "save")
    /\ pool' = [Goto(pool, w, "read") EXCEPT
                   !.save_lock = IF pool.save_lock = w THEN 0 ELSE @]
    /\ PoolFrame

\* A3CWorker.global_episode += 1: the value is read
ReadEpisode(w) ==
    /\ At(pool, w, "read")
    /\ pool' = [Goto(pool, w, "write") EXCEPT !.read[w] = pool.global_episode]
    /\ PoolFrame

\* A3CWorker.global_episode += 1: the value read, plus one, is stored and
\* the temporary is gone; finish_episode returns
WriteEpisode(w) ==
    /\ At(pool, w, "write")
    /\ pool' = [Goto(pool, w, "loop") EXCEPT
                   !.global_episode = pool.read[w] + 1,
                   !.read[w] = 0,
                   !.finished = @ + 1,
                   !.reached = @ \/ pool.read[w] + 1 >= MaxEps]
    /\ PoolFrame

\* self.result_queue.put(None) (line 80)
PutSentinel(w) ==
    /\ At(pool, w, "put")
    /\ pool' = [Goto(pool, w, "done") EXCEPT
                   !.result_queue = put(pool.result_queue, None)]
    /\ PoolFrame

WorkerStep(w) ==
    \/ LoopTest(w)
    \/ RunEpisode(w)
    \/ RunEpisodeRaises(w)
    \/ Record(w)
    \/ CheckSave(w)
    \/ Acquire(w)
    \/ SaveWeights(w)
    \/ ReadEpisode(w)
    \/ WriteEpisode(w)
    \/ PutSentinel(w)

PoolNext == \E w \in Workers : WorkerStep(w)

PoolSpec == PoolInit /\ [][PoolNext]_vars

\* every thread that can run is eventually scheduled
PoolFairSpec == PoolSpec /\ \A w \in Workers : WF_vars(WorkerStep(w))

(***************************************************************************)
(* Properties of the workers.                                              *)
(***************************************************************************)
\* the threads inside the checkpoint section
Saving == {w \in Workers : At(pool, w, "save")}

\* C15: at most one worker at a time is inside the checkpoint section that
\* prints and calls global_model.save_weights.
C15_OneSaverAtATime == Cardinality(Saving) <= 1

\* one worker saves while another waits for the lock
C15_Witness ==
    \E v, w \in Workers : At(pool, v, "save") /\ At(pool, w, "acquire")

\* C16: global_episode always equals the number of episodes finished by all
\* workers, and the number of episodes run never exceeds max_eps by more
\* than the number of workers minus one.
C16_NoLostIncrement ==
    /\ pool.global_episode = pool.finished
    /\ pool.finished <= MaxEps + NumWorkers - 1

AllDone == \A w \in Workers : At(pool, w, "done")

\* a thread has ended by an exception of run_episode
SomeDead == \E w \in Workers : At(pool, w, "dead")

\* every worker has ended, after more episodes than max_eps
C17_Witness ==
    /\ AllDone
    /\ Sentinels(pool.result_queue) = NumWorkers
    /\ pool.finished > MaxEps

\* C17: a worker leaves its loop only after global_episode has reached
\* max_eps, the None sentinels on the queue are one for each worker that has
\* left its loop and ended, and, when every episode terminates (no
\* run_episode call is left by an exception) and the threads are scheduled
\* fairly, every worker does so: the queue finally holds as many None
\* sentinels as there are workers.
C17_EveryWorkerPutsOneSentinel ==
    /\ [](\A w \in Workers : pool.pc[w] \in {"put", "done"} => pool.reached)
    /\ [](Sentinels(pool.result_queue) =
              Cardinality({w \in Workers : At(pool, w, "done")}))
    /\ ([]~SomeDead) => <>[](AllDone /\ Sentinels(pool.result_queue) = NumWorkers)
====
